---------------------------- MODULE Spec2Model ----------------------------
(***************************************************************************)
(* Verification model of the jdat_notebooks repository.                    *)
(*                                                                         *)
(* The repository is a collection of Jupyter notebooks and two tables of   *)
(* contents.  A notebook is modelled as the kernel that executes its code  *)
(* cells top to bottom: the kernel's variables, the files of the working   *)
(* directory and the position of the run are the state, and every code     *)
(* cell (or every iteration of a loop inside a cell) is an action.         *)
(*                                                                         *)
(* Numbers.  numpy computes in IEEE doubles.  The model computes in exact  *)
(* rationals <<n, d>> (d > 0, lowest terms) extended with the IEEE         *)
(* specials: <<1, 0>> is +inf, <<-1, 0>> is -inf and <<0, 0>> is nan, so   *)
(* that a division by zero behaves as it does in numpy.  Rounding is not   *)
(* modelled.  Wavelengths are in units of 0.01 micron (1.75 um is 175).    *)
(* An uncertainty sigma is carried as its square sigma^2 (np.sqrt is not   *)
(* rational); the notebook uses an uncertainty only through its square or  *)
(* through a product with Cnorm, which the square follows exactly.         *)
(***************************************************************************)
EXTENDS Integers, Sequences, FiniteSets, TLC

(***************************************************************************)
(* Bounds of the model (not program constants).                            *)
(***************************************************************************)
NBins == 3      \* wavelength samples per spectrum file
MaxFlux == 2    \* largest flux value of an input file
MaxErr == 2     \* largest uncertainty value of an input file
MaxCat == 2     \* largest broadband flux offset of the catalog

(***************************************************************************)
(* IEEE-like exact arithmetic.                                             *)
(***************************************************************************)
Abs(x) == IF x < 0 THEN -x ELSE x

Sgn(x) == IF x < 0 THEN -1 ELSE IF x > 0 THEN 1 ELSE 0

RECURSIVE GCD(_, _)
GCD(a, b) == IF b = 0 THEN a ELSE GCD(b, a % b)

\* The double n/d: lowest terms, positive denominator; d = 0 gives inf or nan.
Fl(n, d) ==
    IF d = 0 THEN <<Sgn(n), 0>>
    ELSE IF n = 0 THEN <<0, 1>>
    ELSE LET g == GCD(Abs(n), Abs(d))
         IN  <<Sgn(d) * (n \div g), Abs(d) \div g>>

FInt(n) == <<n, 1>>

IsNaN(a) == a[1] = 0 /\ a[2] = 0

IsFinite(a) == a[2] # 0

FNeg(a) == <<-a[1], a[2]>>

FAdd(a, b) ==
    IF a[2] = 0 \/ b[2] = 0
    THEN Fl(a[1] * b[2] + b[1] * a[2], a[2] * b[2])
    ELSE LET g == GCD(a[2], b[2])
         IN  Fl(a[1] * (b[2] \div g) + b[1] * (a[2] \div g), (a[2] \div g) * b[2])

FSub(a, b) == FAdd(a, FNeg(b))

FMul(a, b) ==
    IF a[2] = 0 \/ b[2] = 0
    THEN Fl(a[1] * b[1], a[2] * b[2])
    ELSE LET g1 == GCD(Abs(a[1]), b[2])
             g2 == GCD(Abs(b[1]), a[2])
             h1 == IF g1 = 0 THEN 1 ELSE g1
             h2 == IF g2 = 0 THEN 1 ELSE g2
         IN  Fl((a[1] \div h1) * (b[1] \div h2), (a[2] \div h2) * (b[2] \div h1))

\* 1/b: 1/0 is +inf (the model has no -0.0), 1/inf is 0, 1/nan is nan.
FInv(b) ==
    IF IsNaN(b) THEN <<0, 0>>
    ELSE IF b[2] = 0 THEN <<0, 1>>
    ELSE IF b[1] = 0 THEN <<1, 0>>
    ELSE <<Sgn(b[1]) * b[2], Abs(b[1])>>

FDiv(a, b) == FMul(a, FInv(b))

\* a < b as IEEE compares: false as soon as one side is nan.
FLt(a, b) ==
    IF IsNaN(a) \/ IsNaN(b) THEN FALSE
    ELSE IF a[2] = 0 /\ b[2] = 0 THEN a[1] < b[1]
    ELSE IF a[2] = 0 THEN a[1] < 0
    ELSE IF b[2] = 0 THEN b[1] > 0
    ELSE a[1] * b[2] < b[1] * a[2]

FGt(a, b) == FLt(b, a)

FLe(a, b) == ~IsNaN(a) /\ ~IsNaN(b) /\ ~FLt(b, a)

\* a == b as IEEE compares: nan is equal to nothing.
FEq(a, b) == ~IsNaN(a) /\ ~IsNaN(b) /\ a = b

RECURSIVE FSumTo(_, _)
FSumTo(s, n) == IF n = 0 THEN FInt(0) ELSE FAdd(FSumTo(s, n - 1), s[n])

\* np.sum of an array.
FSum(s) == FSumTo(s, Len(s))

RECURSIVE FMinTo(_, _)
FMinTo(s, n) ==
    IF n = 1 THEN s[1]
    ELSE LET m == FMinTo(s, n - 1) IN IF FLt(s[n], m) THEN s[n] ELSE m

\* np.min of a non-empty array without nan.
FMin(s) == FMinTo(s, Len(s))

RECURSIVE FMaxTo(_, _)
FMaxTo(s, n) ==
    IF n = 1 THEN s[1]
    ELSE LET m == FMaxTo(s, n - 1) IN IF FGt(s[n], m) THEN s[n] ELSE m

\* np.max of a non-empty array without nan.
FMax(s) == FMaxTo(s, Len(s))

\* a[con]: the entries of a that the boolean mask selects, in order.
RECURSIVE MaskTo(_, _, _)
MaskTo(a, con, n) ==
    IF n = 0 THEN <<>>
    ELSE IF con[n] THEN Append(MaskTo(a, con, n - 1), a[n])
    ELSE MaskTo(a, con, n - 1)

Mask(a, con) == MaskTo(a, con, Len(a))

(***************************************************************************)
(* Program constants of the combine-and-normalize notebook.                *)
(***************************************************************************)
ndither == 2

\* c = 3e18 in the source.  It multiplies I1 and divides fnu, nothing else: the
\* model keeps the mantissa (TLC's integers are 32 bits wide).
c == 3

filts == <<"f115w", "f150w", "f200w">>

eazy_filts == <<309, 310, 311>>

\* mask_lw, mask_uw in 0.01 um.
mask_lw == <<105, 135, 175>>

mask_uw == <<125, 165, 223>>

\* The window of the single-filter cell: (wave > 1.75) & (wave < 2.25).
con_lw == 175

con_uw == 225

eazy_filt == 311

(***************************************************************************)
(* 1. Combine: the weighted average of one wavelength bin.                 *)
(* flux and flux_err2 are ndither x len(wave) arrays; column ii is taken.  *)
(***************************************************************************)
Column(arr, ii) == [d \in 1..Len(arr) |-> arr[d][ii]]

\* The plain mean of the dithers at bin ii: what an unweighted combination gives.
MeanFlux(flux, flux_err2, ii) == FDiv(FSum(Column(flux, ii)), FInt(Len(flux)))

\* np.sum(flux[:, ii] * 1 / flux_err[:, ii]**2) / np.sum(1 / flux_err[:, ii]**2)
CombineFlux(flux, flux_err2, ii) ==
    LET f == Column(flux, ii)
        v == Column(flux_err2, ii)
    IN  FDiv(FSum([d \in 1..Len(f) |-> FDiv(FMul(f[d], FInt(1)), v[d])]),
             FSum([d \in 1..Len(v) |-> FDiv(FInt(1), v[d])]))

\* (np.sqrt(np.sum(flux_err[:, ii]**2)) / len(flux_err[:, ii])) ** 2
CombineErr2(flux_err2, ii) ==
    LET v == Column(flux_err2, ii)
    IN  FDiv(FSum(v), FInt(Len(v) * Len(v)))

(***************************************************************************)
(* Library functions the notebook calls, as numpy and scipy compute them.  *)
(***************************************************************************)
\* The last index j with xp[j] <= x, 0 when there is none (xp is increasing).
RECURSIVE LastLe(_, _, _)
LastLe(xp, x, n) ==
    IF n = 0 THEN 0 ELSE IF FLe(xp[n], x) THEN n ELSE LastLe(xp, x, n - 1)

\* The value on the chord, as numpy picks it: from the left sample, from the
\* right one when that is nan, and the common sample value when both are.
ChordValue(r, r2, f0, f1) ==
    IF ~IsNaN(r) THEN r
    ELSE IF IsNaN(r2) /\ FEq(f0, f1) THEN f0
    ELSE r2

ChordAt(x, x0, x1, f0, f1, slope) ==
    ChordValue(FAdd(FMul(slope, FSub(x, x0)), f0), FAdd(FMul(slope, FSub(x, x1)), f1), f0, f1)

\* The chord through (x0, f0) and (x1, f1) at x.
Chord(x, x0, x1, f0, f1) == ChordAt(x, x0, x1, f0, f1, FDiv(FSub(f1, f0), FSub(x1, x0)))

\* np.interp at one point: constant outside xp, the sample itself on a sample
\* point, the chord between two samples otherwise.
Interp1(x, xp, fp) ==
    LET n == Len(xp)
        j == LastLe(xp, x, n)
    IN  IF IsNaN(x) THEN x
        ELSE IF j = 0 THEN fp[1]
        ELSE IF j = n THEN fp[n]
        ELSE IF FEq(xp[j], x) THEN fp[j]
        ELSE Chord(x, xp[j], xp[j + 1], fp[j], fp[j + 1])

\* np.interp(x, xp, fp)
Interp(x, xp, fp) == [i \in 1..Len(x) |-> Interp1(x[i], xp, fp)]

\* np.true_divide(a, b, out=zeros, where=b != 0)
DivWhere(a, b) == IF FEq(b, FInt(0)) THEN FInt(0) ELSE FDiv(a, b)

\* The area under the parabola through three samples, from the widths h0 and
\* h1 of its two intervals, their sum, their product and their ratio.
ParabolaArea(y0, y1, y2, hsum, hprod, h0divh1) ==
    FMul(FDiv(hsum, FInt(6)),
         FAdd(FAdd(FMul(y0, FSub(FInt(2), DivWhere(FInt(1), h0divh1))),
                   FMul(y1, FMul(hsum, DivWhere(hsum, hprod)))),
              FMul(y2, FSub(FInt(2), h0divh1))))

Parabola(y0, y1, y2, h0, h1) ==
    ParabolaArea(y0, y1, y2, FAdd(h0, h1), FMul(h0, h1), DivWhere(h0, h1))

\* One parabolic segment of scipy's _basic_simpson over x[i], x[i+1], x[i+2].
SimpsonSegment(y, x, i) ==
    Parabola(y[i], y[i + 1], y[i + 2], FSub(x[i + 1], x[i]), FSub(x[i + 2], x[i + 1]))

\* _basic_simpson: the sum of the first p segments.
RECURSIVE BasicSimpson(_, _, _)
BasicSimpson(y, x, p) ==
    IF p = 0 THEN FInt(0)
    ELSE FAdd(BasicSimpson(y, x, p - 1), SimpsonSegment(y, x, 2 * p - 1))

\* Cartwright's correction for the last interval of an even number N of
\* points; h0 and h1 are the widths of the last two intervals.
Cartwright(y, N, h0, h1) ==
    LET alpha == DivWhere(FAdd(FMul(FInt(2), FMul(h1, h1)), FMul(FInt(3), FMul(h0, h1))),
                          FMul(FInt(6), FAdd(h1, h0)))
        beta == DivWhere(FAdd(FMul(h1, h1), FMul(FInt(3), FMul(h0, h1))), FMul(FInt(6), h0))
        eta == DivWhere(FMul(h1, FMul(h1, h1)), FMul(FInt(6), FMul(h0, FAdd(h0, h1))))
    IN  FSub(FAdd(FMul(alpha, y[N]), FMul(beta, y[N - 1])), FMul(eta, y[N - 2]))

\* scipy.integrate.simpson(y, x=x) for sample points x: Simpson's rule on an
\* odd number of points (nothing is added to it); on an even number the last
\* interval is added with Cartwright's correction, and two points are a
\* trapezoid.
Simpson(y, x) ==
    LET N == Len(y)
    IN  IF N = 0 THEN FInt(0)
        ELSE IF N = 2
        THEN FMul(FMul(FInv(FInt(2)), FSub(x[2], x[1])), FAdd(y[2], y[1]))
        ELSE FAdd(BasicSimpson(y, x, (N - 1) \div 2),
                  IF N % 2 = 1 THEN FInt(0)
                  ELSE Cartwright(y, N, FSub(x[N - 1], x[N - 2]), FSub(x[N], x[N - 1])))

(***************************************************************************)
(* 2. Normalize: the convolution of a spectrum with a filter curve.        *)
(***************************************************************************)
\* lcen of filconv: the middle of the filter's half-maximum range.
FilterCentre(lfil, ffil) ==
    LET fhalf == FDiv(FMax(ffil), FInt(2))
        con == [i \in 1..Len(ffil) |-> FGt(ffil[i], fhalf)]
        lfwhml == FMin(Mask(lfil, con))
        lfwhmr == FMax(Mask(lfil, con))
    IN  FDiv(FAdd(lfwhmr, lfwhml), FInt(2))

\* I1/I2/c for the spectrum spec on lamS and the filter curve on lamS.
Fnu(lamS, spec, filt_int) ==
    LET y1 == [i \in 1..Len(lamS) |->
                 FMul(FMul(FMul(FDiv(spec[i], FMul(lamS[i], lamS[i])), FInt(c)),
                           filt_int[i]), lamS[i])]
        y2 == [i \in 1..Len(lamS) |-> FDiv(filt_int[i], lamS[i])]
    IN  FDiv(FDiv(Simpson(y1, lamS), Simpson(y2, lamS)), FInt(c))

\* I1/I2/c whatever the length of the spectrum.
FluxOfAnySpectrum(lfil, ffil, l0, f0) == Fnu(l0, f0, Interp(l0, lfil, ffil))

\* fnu of filconv: I1/I2/c, and 0 for an empty spectrum.
FilterFlux(lfil, ffil, l0, f0) ==
    IF Len(l0) > 0 THEN Fnu(l0, f0, Interp(l0, lfil, ffil)) ELSE FInt(0)

\* def filconv(lfil, ffil, l0, f0, DIR='', c=3e18): return lcen, fnu
filconv(lfil, ffil, l0, f0) ==
    [lcen |-> FilterCentre(lfil, ffil), fnu |-> FilterFlux(lfil, ffil, l0, f0)]

\* con = (wave > lw) & (wave < uw)
Window(wave, lw, uw) ==
    [i \in 1..Len(wave) |-> FGt(wave[i], FInt(lw)) /\ FLt(wave[i], FInt(uw))]

\* array * Cnorm
Scale(arr, k) == [i \in 1..Len(arr) |-> FMul(arr[i], k)]

(***************************************************************************)
(* State.                                                                  *)
(***************************************************************************)
VARIABLES
    nb,         \* the program that runs: a notebook, or one of its functions
    pc,         \* position of the run: [cell, step, ff, n]
    inp,        \* the data the run was given (files on the archive, GUI input)
    fs,         \* the working directory: file name -> file
    k,          \* the kernel's namespace: the notebook's Python variables
    reads,      \* history: the files the run has read, with their origin
    writes,     \* history: the spectra the run has written, and where
    fin,        \* argument of the function under study (nb = "combine")
    fout        \* its result

vars == <<nb, pc, inp, fs, k, reads, writes, fin, fout>>

Idle == [set |-> FALSE]

At(cell, step, ff, n) == [cell |-> cell, step |-> step, ff |-> ff, n |-> n]

(***************************************************************************)
(* Files of the combine-and-normalize notebook.  A name is the tuple of    *)
(* the fields its f-string formats; DIR_OUT and grism never change.        *)
(***************************************************************************)
Ids == <<"00004", "00003">>

\* f'{DIR_OUT}l3_nis_{filt}_{grism}_s{id}_ndither{dither}_1d_opt.fits'
DitherFile(filt, id, dither) == <<"ndither", filt, id, dither>>

\* f'{DIR_OUT}l3_nis_{filt}_{grism}_s{id}_combine_1d_opt.fits'
CombineFile(filt, id) == <<"combine", filt, id, 0>>

\* DIR_OUT + 'l3_nis_flux.cat'
CatFile == <<"cat", "", "", 0>>

\* f'{DIR_FIL}/NIRISS_{filt.upper()}.txt'
FilterFile(filt) == <<"filter", filt, "", 0>>

\* './output'
OutputDir == <<"dir", "output", "", 0>>

DitherFiles ==
    {DitherFile(filts[f], Ids[t], d) : f \in 1..3, t \in 1..2, d \in 0..(ndither - 1)}

CombineFiles == {CombineFile(filts[f], Ids[t]) : f \in 1..3, t \in 1..2}

FilterFiles == {FilterFile(filts[f]) : f \in 1..3}

\* The members of output.zip: the products of the optimal-extraction notebook.
ZipMembers == DitherFiles \cup {CatFile, OutputDir}

Files == ZipMembers \cup CombineFiles \cup FilterFiles

\* A file: whether it exists, where it came from, and the spectrum it holds.  The
\* uncertainty column is kept as the pair (unc2, gain), standing for
\* sqrt(unc2) * gain, so that writing a scaled uncertainty squares nothing.
NoFile ==
    [exists |-> FALSE, origin |-> "none", wave |-> <<>>, flux |-> <<>>, unc2 |-> <<>>,
     gain |-> FInt(1)]

\* A file that exists, of which only the origin matters.
Found(origin) == [NoFile EXCEPT !.exists = TRUE, !.origin = origin]

\* fd['uncertainty']**2
Uncertainty2(fd) == Scale(fd.unc2, FMul(fd.gain, fd.gain))

FilterIndex(filt) == CHOOSE f \in 1..3 : filts[f] = filt

\* Wavelength grid of an input spectrum, 0.1 um per sample for grid 1 and
\* 0.24 um for grid 2.  Grid 1 starts 0.05 um inside the filter's window; grid 2
\* has its last but one sample 0.24 um above the window's lower edge, so that for
\* f200w the last sample is at 2.23 um.
GridPoint(g, f, i) ==
    IF g = 1 THEN mask_lw[f] + 5 + 10 * (i - 1) ELSE mask_lw[f] + 24 * (i - (NBins - 2))

\* The spectrum of one dither as the optimal extraction left it: target 00004
\* is flat, target 00003 rises by `ramp` per sample; the dithers differ by
\* dflux in flux and by shift in wavelength, and each has its own uncertainty.
InputSpectrum(in, f, t, d) ==
    [exists |-> TRUE,
     origin |-> IF in.had_output THEN "other" ELSE "download",
     wave |-> [i \in 1..NBins |-> FInt(GridPoint(in.grid, f, i) + d * in.shift)],
     flux |-> [i \in 1..NBins |-> FInt(in.flux0 + d * in.dflux + (t - 1) * in.ramp * (i - 1))],
     unc2 |-> [i \in 1..NBins |-> FInt(in.err[d] * in.err[d])],
     gain |-> FInt(1)]

Product(in, name) ==
    IF name[1] = "ndither"
    THEN InputSpectrum(in, FilterIndex(name[2]),
                       CHOOSE t \in 1..2 : Ids[t] = name[3], name[4])
    ELSE [NoFile EXCEPT !.exists = TRUE,
                        !.origin = IF in.had_output THEN "other" ELSE "download"]

\* fd_cat[f'F{col}'][np.where(id_cat[:] == int(id))]: the broadband flux.
Catalog(in, id, col) ==
    FInt(in.Fcat + (col - 309) + (IF id = "00003" THEN 1 ELSE 0))

\* The transmission curve NIRISS_{FILT}.txt: Wavelength and FilterTrans.
FilterCurve(filt) ==
    LET f == FilterIndex(filt)
        lo == <<100, 130, 170>>
        hi == <<130, 170, 230>>
    IN  [Wavelength |-> <<FInt(lo[f]), FInt(lo[f] + 10), FInt(hi[f] - 10), FInt(hi[f])>>,
         FilterTrans |-> <<FInt(0), FInt(1), FInt(1), FInt(0)>>]

Zeros(n) == [i \in 1..n |-> FInt(0)]

\* fits.open(file)[1].data, ascii.read(file): the history of what was read.
Read(name) == reads \cup {[file |-> name, origin |-> fs[name].origin, cell |-> pc.cell]}

(***************************************************************************)
(* The combine-and-normalize notebook, cell by cell.                       *)
(***************************************************************************)
NoKernel ==
    [id |-> "", filt |-> "", ff |-> 0, dither |-> -1, file_1d |-> <<>>,
     wave |-> <<>>, flux |-> <<>>, flux_err2 |-> <<>>,
     flux_combine |-> <<>>, flux_err_combine2 |-> <<>>,
     wave_filt |-> <<>>, flux_filt |-> <<>>, con |-> <<>>,
     lcen |-> FInt(0), fnu |-> FInt(0), Cnorm |-> FInt(0)]

Inputs ==
    [flux0 : 1..MaxFlux, dflux : 0..1, ramp : 0..1,
     err : [0..(ndither - 1) -> 1..MaxErr], Fcat : 1..MaxCat,
     grid : 1..2, shift : {0, 5}, had_output : BOOLEAN]

NoInput == [flux0 |-> 0]

InitNiriss ==
    /\ nb = "niriss"
    /\ pc = At("download", "", 0, 0)
    /\ inp \in Inputs
    /\ fs = [name \in Files |->
               IF ~inp.had_output THEN NoFile
               ELSE IF name \in ZipMembers THEN Product(inp, name)
               ELSE Found("other")]
    /\ k = NoKernel
    /\ reads = {}
    /\ writes = {}
    /\ fin = Idle
    /\ fout = Idle

\* 0. Download notebook 01 products: only if './output' does not exist.
Download ==
    /\ nb = "niriss" /\ pc.cell = "download"
    /\ fs' = IF ~fs[OutputDir].exists
             THEN [name \in Files |-> IF name \in ZipMembers THEN Product(inp, name) ELSE fs[name]]
             ELSE fs
    /\ pc' = At("config", "", 0, 0)
    /\ UNCHANGED <<nb, inp, k, reads, writes, fin, fout>>

\* Which data set?  filt = 'f200w', id = '00004', ndither = 2.
Config ==
    /\ nb = "niriss" /\ pc.cell = "config"
    /\ k' = [k EXCEPT !.filt = "f200w", !.id = "00004"]
    /\ pc' = At("load", "load", 0, 0)
    /\ UNCHANGED <<nb, inp, fs, reads, writes, fin, fout>>

\* The body of `for dither in dithers`: dither 0 sets the wavelength grid, the
\* other dithers are interpolated onto it.
LoadDither(kk, fd, dither) ==
    IF dither = 0
    THEN [kk EXCEPT !.dither = dither,
                    !.wave = fd.wave,
                    !.flux = [d \in 1..ndither |-> IF d = 1 THEN fd.flux ELSE Zeros(Len(fd.wave))],
                    !.flux_err2 = [d \in 1..ndither |-> IF d = 1 THEN Uncertainty2(fd) ELSE Zeros(Len(fd.wave))]]
    ELSE [kk EXCEPT !.dither = dither,
                    !.flux[dither + 1] = Interp(kk.wave, fd.wave, fd.flux),
                    !.flux_err2[dither + 1] = Interp(kk.wave, fd.wave, Uncertainty2(fd))]

\* The body of `for ii in range(len(wave))`; the arrays are zeroed before the
\* first bin.
CombineStep(kk, ii) ==
    LET fc == IF ii = 1 THEN Zeros(Len(kk.wave)) ELSE kk.flux_combine
        ec == IF ii = 1 THEN Zeros(Len(kk.wave)) ELSE kk.flux_err_combine2
    IN  [kk EXCEPT !.flux_combine = [fc EXCEPT ![ii] = CombineFlux(kk.flux, kk.flux_err2, ii)],
                   !.flux_err_combine2 = [ec EXCEPT ![ii] = CombineErr2(kk.flux_err2, ii)]]

\* The combined spectrum as it is before the normalization.
ObsCombined(kk) ==
    [exists |-> TRUE, origin |-> "written", wave |-> kk.wave,
     flux |-> kk.flux_combine, unc2 |-> kk.flux_err_combine2, gain |-> FInt(1)]

\* obs = Spectrum(wave, flux_combine * Cnorm, flux_err_combine * Cnorm)
Obs(kk) ==
    [exists |-> TRUE, origin |-> "written", wave |-> kk.wave,
     flux |-> Scale(kk.flux_combine, kk.Cnorm),
     unc2 |-> kk.flux_err_combine2,
     gain |-> kk.Cnorm]

\* 1. Combine spectra from different dithers (one dither per step).
LoadCell ==
    /\ nb = "niriss" /\ pc.cell = "load"
    /\ LET file_1d == DitherFile(k.filt, k.id, pc.n)
       IN  /\ k' = [LoadDither(k, fs[file_1d], pc.n) EXCEPT !.file_1d = file_1d]
           /\ reads' = Read(file_1d)
    /\ pc' = IF pc.n + 1 < ndither THEN At("load", "load", 0, pc.n + 1)
             ELSE At("combine", "combine", 0, 0)
    /\ UNCHANGED <<nb, inp, fs, writes, fin, fout>>

\* Make weighted-average of the two spectra (one wavelength bin per step).
CombineCell ==
    /\ nb = "niriss" /\ pc.cell = "combine"
    /\ k' = CombineStep(k, pc.n + 1)
    /\ pc' = IF pc.n + 1 < Len(k.wave) THEN At("combine", "combine", 0, pc.n + 1)
             ELSE At("catalog", "", 0, 0)
    /\ UNCHANGED <<nb, inp, fs, reads, writes, fin, fout>>

\* Open broadband flux catalog from Notebook 01a.
CatalogCell ==
    /\ nb = "niriss" /\ pc.cell = "catalog"
    /\ reads' = Read(CatFile)
    /\ pc' = At("filters", "", 0, 0)
    /\ UNCHANGED <<nb, inp, fs, k, writes, fin, fout>>

\* Retrieve filter curves for NIRISS images: download and extract the tarball.
FiltersCell ==
    /\ nb = "niriss" /\ pc.cell = "filters"
    /\ fs' = [name \in Files |->
                IF name \in FilterFiles
                THEN [NoFile EXCEPT !.exists = TRUE, !.origin = "download"]
                ELSE fs[name]]
    /\ pc' = At("loadfilter", "", 0, 0)
    /\ UNCHANGED <<nb, inp, k, reads, writes, fin, fout>>

\* Load filter response of `filt`.
LoadFilterCell ==
    /\ nb = "niriss" /\ pc.cell = "loadfilter"
    /\ k' = [k EXCEPT !.wave_filt = FilterCurve(k.filt).Wavelength,
                      !.flux_filt = FilterCurve(k.filt).FilterTrans]
    /\ reads' = Read(FilterFile(k.filt))
    /\ pc' = At("convolve", "", 0, 0)
    /\ UNCHANGED <<nb, inp, fs, writes, fin, fout>>

\* lcen, fnu = filconv(...): the kernel with the window and the two results.
WithFilconv(kk, con, r) == [kk EXCEPT !.con = con, !.lcen = r.lcen, !.fnu = r.fnu]

ConvolveWindow(kk, con) ==
    WithFilconv(kk, con, filconv(kk.wave_filt, kk.flux_filt,
                                 Mask(kk.wave, con), Mask(kk.flux_combine, con)))

\* con = (wave > 1.75) & (wave < 2.25); lcen, fnu = filconv(wave_filt,
\* flux_filt, wave[con], flux_combine[con])
Convolve(kk) == ConvolveWindow(kk, Window(kk.wave, con_lw, con_uw))

\* Convolve observed spectrum with the filter response.
ConvolveCell ==
    /\ nb = "niriss" /\ pc.cell = "convolve"
    /\ k' = Convolve(k)
    /\ pc' = At("cnorm", "", 0, 0)
    /\ UNCHANGED <<nb, inp, fs, reads, writes, fin, fout>>

\* Cnorm = fd_cat[f'F{eazy_filt}'][iix] / fnu
GetCnorm(kk, in) == [kk EXCEPT !.Cnorm = FDiv(Catalog(in, kk.id, eazy_filt), kk.fnu)]

\* Get normalization factor.
CnormCell ==
    /\ nb = "niriss" /\ pc.cell = "cnorm"
    /\ k' = GetCnorm(k, inp)
    /\ pc' = At("write", "", 0, 0)
    /\ UNCHANGED <<nb, inp, fs, reads, writes, fin, fout>>

\* The combine file of the kernel's filter and target.
CombineFileOf(kk) == CombineFile(kk.filt, kk.id)

\* The file name the single-filter cell writes to.
WriteCellFile(kk) == DitherFile(kk.filt, kk.id, kk.dither)

\* Write the normalized spectrum.
WriteCell ==
    /\ nb = "niriss" /\ pc.cell = "write"
    /\ LET file_1d == WriteCellFile(k)
       IN  /\ k' = [k EXCEPT !.file_1d = file_1d]
           /\ fs' = [fs EXCEPT ![file_1d] = Obs(k)]
           /\ writes' = writes \cup {[file |-> file_1d, id |-> k.id, filt |-> k.filt, cell |-> pc.cell]}
    /\ pc' = At("loopA", "load", 1, 0)
    /\ UNCHANGED <<nb, inp, reads, fin, fout>>

LoopCells == {"loopA", "loopB"}

\* id of the loop cell: 'Repeat for another target' starts with id = '00003'.
LoopId(cell, kk) == IF cell = "loopB" THEN "00003" ELSE kk.id

\* Repeat 1&2 for other filters / for another target: reading one dither.
LoopLoad ==
    /\ nb = "niriss" /\ pc.cell \in LoopCells /\ pc.step = "load"
    /\ LET filt == filts[pc.ff]
           id == LoopId(pc.cell, k)
           file_1d == DitherFile(filt, id, pc.n)
       IN  /\ k' = [LoadDither(k, fs[file_1d], pc.n)
                       EXCEPT !.file_1d = file_1d, !.id = id, !.ff = pc.ff, !.filt = filt]
           /\ reads' = Read(file_1d)
    /\ pc' = IF pc.n + 1 < ndither THEN [pc EXCEPT !.n = pc.n + 1]
             ELSE [pc EXCEPT !.step = "combine", !.n = 0]
    /\ UNCHANGED <<nb, inp, fs, writes, fin, fout>>

\* # Combine;
LoopCombine ==
    /\ nb = "niriss" /\ pc.cell \in LoopCells /\ pc.step = "combine"
    /\ k' = CombineStep(k, pc.n + 1)
    /\ pc' = IF pc.n + 1 < Len(k.wave) THEN [pc EXCEPT !.n = pc.n + 1]
             ELSE [pc EXCEPT !.step = "normalize", !.n = 0]
    /\ UNCHANGED <<nb, inp, fs, reads, writes, fin, fout>>

\* The first dither's flux: what a normalization before combining would use.
FirstDitherFlux(kk) == kk.flux[1]

\* The spectrum the loop's filconv call is given.
NormalizeFlux(kk) == kk.flux_combine

\* Cnorm = fd_cat[f'F{eazy_filts[ff]}'][iix] / fnu
LoopCnorm(kk, in) ==
    [kk EXCEPT !.Cnorm = FDiv(Catalog(in, kk.id, eazy_filts[kk.ff]), kk.fnu)]

\* con = (wave > mask_lw[ff]) & (wave < mask_uw[ff]); lcen, fnu = filconv(...)
NormalizeWindow(kk, con) ==
    WithFilconv(kk, con, filconv(kk.wave_filt, kk.flux_filt,
                                 Mask(kk.wave, con), Mask(NormalizeFlux(kk), con)))

\* wave_filt, flux_filt = fd_filt['Wavelength'], fd_filt['FilterTrans']
WithFilter(kk, cur) == [kk EXCEPT !.wave_filt = cur.Wavelength, !.flux_filt = cur.FilterTrans]

\* # Normalize;
Normalize(kk, in) ==
    LoopCnorm(NormalizeWindow(WithFilter(kk, FilterCurve(kk.filt)),
                              Window(kk.wave, mask_lw[kk.ff], mask_uw[kk.ff])), in)

LoopNormalize ==
    /\ nb = "niriss" /\ pc.cell \in LoopCells /\ pc.step = "normalize"
    /\ k' = Normalize(k, inp)
    /\ reads' = Read(FilterFile(k.filt))
    /\ pc' = [pc EXCEPT !.step = "write"]
    /\ UNCHANGED <<nb, inp, fs, writes, fin, fout>>

\* The first dither's file of the kernel's filter and target.
DitherZeroFile(kk) == DitherFile(kk.filt, kk.id, 0)

\* The file name the loop cells write to.
LoopWriteFile(kk) == CombineFile(kk.filt, kk.id)

\* # Write:
LoopWrite ==
    /\ nb = "niriss" /\ pc.cell \in LoopCells /\ pc.step = "write"
    /\ LET file_1d == LoopWriteFile(k)
       IN  /\ k' = [k EXCEPT !.file_1d = file_1d]
           /\ fs' = [fs EXCEPT ![file_1d] = Obs(k)]
           /\ writes' = writes \cup {[file |-> file_1d, id |-> k.id, filt |-> k.filt, cell |-> pc.cell]}
    /\ pc' = IF pc.ff < Len(filts) THEN At(pc.cell, "load", pc.ff + 1, 0)
             ELSE At(IF pc.cell = "loopA" THEN "plotA" ELSE "plotB", "plot", 1, 0)
    /\ UNCHANGED <<nb, inp, reads, fin, fout>>

PlotCells == {"plotA", "plotB"}

\* Results: the written spectrum of each filter is read back, convolved with
\* the filter and plotted with the broadband flux at lcen.
PlotWindow(kk, con) ==
    WithFilconv(kk, con, filconv(kk.wave_filt, kk.flux_filt,
                                 Mask(kk.wave, con), Mask(kk.flux, con)))

\* fd = fits.open(file_1d)[1].data: wave, flux, flux_err of the written file.
PlotLoad(kk, ff, fd) ==
    [kk EXCEPT !.ff = ff, !.filt = filts[ff], !.file_1d = CombineFile(filts[ff], kk.id),
               !.wave = fd.wave, !.flux = fd.flux,
               !.flux_err2 = [unc2 |-> fd.unc2, gain |-> fd.gain]]

Plot(kk, ff, fd) ==
    PlotWindow(WithFilter(PlotLoad(kk, ff, fd), FilterCurve(filts[ff])),
               Window(fd.wave, mask_lw[ff], mask_uw[ff]))

PlotCell ==
    /\ nb = "niriss" /\ pc.cell \in PlotCells
    /\ k' = Plot(k, pc.ff, fs[CombineFile(filts[pc.ff], k.id)])
    /\ reads' = Read(CombineFile(filts[pc.ff], k.id)) \cup
                {[file |-> FilterFile(filts[pc.ff]),
                  origin |-> fs[FilterFile(filts[pc.ff])].origin, cell |-> pc.cell]}
    /\ pc' = IF pc.ff < Len(filts) THEN [pc EXCEPT !.ff = pc.ff + 1]
             ELSE IF pc.cell = "plotA" THEN At("loopB", "load", 1, 0)
             ELSE At("done", "", 0, 0)
    /\ UNCHANGED <<nb, inp, fs, writes, fin, fout>>

NextNiriss ==
    \/ Download \/ Config \/ LoadCell \/ CombineCell \/ CatalogCell \/ FiltersCell
    \/ LoadFilterCell \/ ConvolveCell \/ CnormCell \/ WriteCell
    \/ LoopLoad \/ LoopCombine \/ LoopNormalize \/ LoopWrite \/ PlotCell

(***************************************************************************)
(* The redshift notebook: the Specviz viewer viz2, what the user may do in *)
(* it, and the cells that clean up the spectrum.  The kernel holds the     *)
(* viewer's subsets and glue's subset counter next to the Python variables.*)
(***************************************************************************)
MaxSubsets == 2     \* subsets the user draws by hand
MaxRuns == 2        \* executions of the clean-up cell

roi_lo == 224       \* XRangeROI(2.24, 3.13)
roi_hi == 313

SubsetLabel(n) == <<"Subset", n>>

HasSubset(gui, label) == \E sub \in gui.subsets : sub.label = label

\* A flag that an except branch would leave set.
FlagLeftTrue == TRUE

\* region1_exists = False, spec_agb_exists = False: what an except branch
\* gives its flag.
ExceptFlag == FALSE

\* A new subset in the spectrum viewer: glue numbers it with its counter of
\* subsets created so far, which a deletion does not decrease.
ApplyRoi(gui, lo, hi) ==
    [gui EXCEPT !.sg_count = gui.sg_count + 1,
                !.subsets = gui.subsets \cup
                            {[label |-> SubsetLabel(gui.sg_count + 1), lo |-> lo, hi |-> hi]}]

\* viz2.get_spectra(data_label=..., subset_to_apply=label)
GetSpectra(gui, label) ==
    IF HasSubset(gui, label) THEN [raised |-> FALSE, value |-> label]
    ELSE [raised |-> TRUE, value |-> "unbound"]

InitRedshift ==
    /\ nb = "redshift"
    /\ pc = At("viz2", "", 0, 0)
    /\ inp = NoInput
    /\ fs = <<>>
    /\ k = [subsets |-> {}, sg_count |-> 0, region1 |-> "unbound",
            region1_exists |-> "unbound", calls |-> <<>>, raised |-> FALSE,
            created |-> 0, spec1d_masked |-> "unbound"]
    /\ reads = {}
    /\ writes = {}
    /\ fin = Idle
    /\ fout = Idle

\* viz2 = Specviz(); viz2.load_data(spec1d_sub, ...); viz2.show()
ShowViz2 ==
    /\ nb = "redshift" /\ pc.cell = "viz2"
    /\ pc' = At("gui", "", 0, 0)
    /\ UNCHANGED <<nb, inp, fs, k, reads, writes, fin, fout>>

\* The user selects a region of the spectrum with the GUI.
UserDraw ==
    /\ nb = "redshift" /\ pc.cell = "gui"
    /\ k.sg_count < MaxSubsets
    /\ \E lo \in {200, roi_lo} : k' = ApplyRoi(k, lo, lo + 50)
    /\ UNCHANGED <<nb, pc, inp, fs, reads, writes, fin, fout>>

\* The user deletes a subset in the GUI.
UserDelete ==
    /\ nb = "redshift" /\ pc.cell = "gui"
    /\ \E sub \in k.subsets : k' = [k EXCEPT !.subsets = k.subsets \ {sub}]
    /\ UNCHANGED <<nb, pc, inp, fs, reads, writes, fin, fout>>

\* Create a subset in the area of interest if it has not been created
\* manually: the try/except around get_spectra, then the conditional apply_roi.
CleanupCell ==
    /\ nb = "redshift" /\ pc.cell \in {"gui", "cleanup"}
    /\ pc.n < MaxRuns
    /\ LET r == GetSpectra(k, SubsetLabel(1))
           kk == [k EXCEPT !.region1 = IF r.raised THEN k.region1 ELSE r.value,
                           !.region1_exists = IF r.raised THEN ExceptFlag ELSE TRUE,
                           !.calls = <<SubsetLabel(1)>>,
                           !.raised = r.raised]
       IN  k' = IF kk.region1_exists = FALSE
                THEN [ApplyRoi(kk, roi_lo, roi_hi) EXCEPT !.created = kk.created + 1]
                ELSE kk
    /\ pc' = At("cleanup", "", 0, pc.n + 1)
    /\ UNCHANGED <<nb, inp, fs, reads, writes, fin, fout>>

\* Get spectrum out with mask: spec1d_region['Subset 1'] is a dict lookup.
LookupCell ==
    /\ nb = "redshift" /\ pc.cell = "cleanup"
    /\ IF HasSubset(k, SubsetLabel(1))
       THEN /\ k' = [k EXCEPT !.spec1d_masked = SubsetLabel(1)]
            /\ pc' = At("done", "", 0, pc.n)
       ELSE /\ k' = k
            /\ pc' = At("KeyError", "", 0, pc.n)
    /\ UNCHANGED <<nb, inp, fs, reads, writes, fin, fout>>

NextRedshift == ShowViz2 \/ UserDraw \/ UserDelete \/ CleanupCell \/ LookupCell

(***************************************************************************)
(* The MRS Mstar analysis notebook: the reduced data it finds or downloads,*)
(* the Cubeviz viewer, and the cell that extracts the AGB star's spectrum. *)
(***************************************************************************)
\* "combine_dithers_all_exposures_ch1-long_s3d.fits"
CubeFile == <<"mrs", "ch1-long_s3d.fits">>
\* the x1d spectra SpectrumList.read('.') finds
X1dFiles == <<"mrs", "x1d.fits">>
\* './reduced.tar.gz'
TarFile == <<"mrs", "reduced.tar.gz">>
\* the astropy download cache: the original spectrum and blackbody.fits
OrigSpecFile == <<"cache", "origspec">>
BlackbodyFile == <<"cache", "blackbody.fits">>

MrsFiles == {CubeFile, X1dFiles, TarFile, OrigSpecFile, BlackbodyFile}

\* The products of the pipeline notebook, as reduced.tar.gz packs them.
Reduced == {CubeFile, X1dFiles}

SubsetSum == "Spectrum (Subset 1, sum)"
FieldSum == "Spectrum (sum)"

\* cubeviz.get_data(label)
GetData(gui, label) ==
    IF label \in gui.labels THEN [raised |-> FALSE, value |-> label]
    ELSE [raised |-> TRUE, value |-> "unbound"]

MaxBands == 2       \* spectra in the SpectrumList
MaxSamples == 2     \* samples of one spectrum
MaxWl == 3          \* largest wavelength value
MaxFnu == 2         \* largest flux value

\* One x1d spectrum: spectral_axis and flux, sample by sample.
Spectra ==
    UNION {[spectral_axis : [1..n -> 1..MaxWl], flux : [1..n -> 1..MaxFnu]] : n \in 0..MaxSamples}

\* What SpectrumList.read('.') can return.
SpectrumLists == [1..MaxBands -> Spectra]

\* The samples of the first n spectra in the order of the two nested loops:
\* for bndind ...: for wlind ...: orig.append(column[wlind])
RECURSIVE AppendAll(_, _, _)
AppendAll(splist, column, n) ==
    IF n = 0 THEN <<>>
    ELSE AppendAll(splist, column, n - 1) \o
         [wlind \in 1..Len(splist[n].spectral_axis) |-> splist[n][column][wlind]]

\* The indices in the order they are given.
InOrder(a, stable) == [i \in 1..Len(a) |-> i]

\* The sorted indices of the first n - 1 entries with n put in its place:
\* after the entries with a smaller key, and after those with an equal key
\* if the sort is stable, before them if it is not.
Insert(idx, n, a, stable) ==
    [i \in 1..(Len(idx) + 1) |->
        IF i <= Cardinality({j \in 1..Len(idx) :
                               a[idx[j]] < a[n] \/ (stable /\ a[idx[j]] = a[n])})
        THEN idx[i]
        ELSE IF i = 1 + Cardinality({j \in 1..Len(idx) :
                                       a[idx[j]] < a[n] \/ (stable /\ a[idx[j]] = a[n])})
        THEN n
        ELSE idx[i - 1]]

RECURSIVE ArgsortTo(_, _, _)
ArgsortTo(a, n, stable) ==
    IF n = 0 THEN <<>> ELSE Insert(ArgsortTo(a, n - 1, stable), n, a, stable)

\* np.argsort(a): the default sort is not stable, equal keys come out in the
\* order the implementation happens to give them.
Argsort(a, stable) == ArgsortTo(a, Len(a), stable)

\* arr[srtind]
Take(arr, srtind) == [i \in 1..Len(srtind) |-> arr[srtind[i]]]

\* wlall = wlallarr[srtind]; fnuall = fnuallarr[srtind];
\* dfnuall = (0.0001)*np.ones(len(fnuall))
Master(kk, wlallarr, fnuallarr, srtind) ==
    [kk EXCEPT !.wlall = Take(wlallarr, srtind), !.fnuall = Take(fnuallarr, srtind),
               !.dfnuall = [i \in 1..Len(srtind) |-> <<1, 10000>>]]

\* The cell that builds the master spectrum from splist.
MasterSpectrum(kk, splist, stable) ==
    Master(kk, AppendAll(splist, "spectral_axis", Len(splist)),
           AppendAll(splist, "flux", Len(splist)),
           Argsort(AppendAll(splist, "spectral_axis", Len(splist)), stable))

InitMrs ==
    /\ nb = "mrs"
    /\ pc = At("download", "", 0, 0)
    /\ inp \in [had_cube : BOOLEAN, bb1 : BOOLEAN, splist : SpectrumLists, stable : BOOLEAN]
    /\ fs = [name \in MrsFiles |->
               IF inp.had_cube /\ name \in Reduced THEN Found("other") ELSE NoFile]
    /\ k = [labels |-> {}, spec_agb |-> "unbound", spec_agb_exists |-> "unbound",
            calls |-> <<>>, raised |-> FALSE, blackbody |-> "unbound",
            wlall |-> "unbound", fnuall |-> "unbound", dfnuall |-> "unbound"]
    /\ reads = {}
    /\ writes = {}
    /\ fin = Idle
    /\ fout = Idle

\* Check if Pipeline 3 Reduced data exists and, if not, download it.
MrsDownload ==
    /\ nb = "mrs" /\ pc.cell = "download"
    /\ fs' = IF fs[CubeFile].exists THEN fs
             ELSE [name \in MrsFiles |->
                     IF name \in Reduced \cup {TarFile} THEN Found("download") ELSE fs[name]]
    /\ pc' = At("readlist", "", 0, 0)
    /\ UNCHANGED <<nb, inp, k, reads, writes, fin, fout>>

\* splist = SpectrumList.read('.') and the master spectrum built from it.
MrsReadList ==
    /\ nb = "mrs" /\ pc.cell = "readlist"
    /\ reads' = Read(X1dFiles)
    /\ k' = MasterSpectrum(k, inp.splist, inp.stable)
    /\ pc' = At("loadcube", "", 0, 0)
    /\ UNCHANGED <<nb, inp, fs, writes, fin, fout>>

\* cubeviz.load_data(ch1short_cubefile)
MrsLoadCube ==
    /\ nb = "mrs" /\ pc.cell = "loadcube"
    /\ reads' = Read(CubeFile)
    /\ k' = [k EXCEPT !.labels = {FieldSum}]
    /\ pc' = At("gui", "", 0, 0)
    /\ UNCHANGED <<nb, inp, fs, writes, fin, fout>>

\* The user draws a circular region around the AGB star.
MrsUserDraw ==
    /\ nb = "mrs" /\ pc.cell = "gui"
    /\ SubsetSum \notin k.labels
    /\ k' = [k EXCEPT !.labels = k.labels \cup {SubsetSum}]
    /\ UNCHANGED <<nb, pc, inp, fs, reads, writes, fin, fout>>

\* Now extract spectrum from your spectral viewer: try the subset's spectrum,
\* except Exception: the whole field of view.
SpecAgbCell ==
    /\ nb = "mrs" /\ pc.cell = "gui"
    /\ LET r == GetData(k, SubsetSum)
           e == GetData(k, FieldSum)
       IN  IF ~r.raised
           THEN /\ k' = [k EXCEPT !.spec_agb = r.value, !.spec_agb_exists = TRUE,
                                  !.calls = <<SubsetSum>>, !.raised = FALSE]
                /\ pc' = At("origspec", "", 0, 0)
           ELSE /\ k' = [k EXCEPT !.spec_agb = IF e.raised THEN k.spec_agb ELSE e.value,
                                  !.spec_agb_exists = ExceptFlag,
                                  !.calls = <<SubsetSum, FieldSum>>, !.raised = TRUE]
                /\ pc' = At(IF e.raised THEN "Exception" ELSE "origspec", "", 0, 0)
    /\ UNCHANGED <<nb, inp, fs, reads, writes, fin, fout>>

\* origspecfile = download_file(..., cache=True); origdata = ascii.read(origspecfile)
OrigSpecCell ==
    /\ nb = "mrs" /\ pc.cell = "origspec"
    /\ fs' = [fs EXCEPT ![OrigSpecFile] = Found("download")]
    /\ reads' = reads \cup {[file |-> OrigSpecFile, origin |-> "download", cell |-> pc.cell]}
    /\ pc' = At("blackbody", "", 0, 0)
    /\ UNCHANGED <<nb, inp, k, writes, fin, fout>>

\* checkKey(spectra, "BB1"): the user's blackbody fit, or the downloaded one.
BlackbodyCell ==
    /\ nb = "mrs" /\ pc.cell = "blackbody"
    /\ IF inp.bb1
       THEN /\ k' = [k EXCEPT !.blackbody = "BB1"]
            /\ UNCHANGED <<fs, reads>>
       ELSE /\ k' = [k EXCEPT !.blackbody = "blackbody.fits"]
            /\ fs' = [fs EXCEPT ![BlackbodyFile] = Found("download")]
            /\ reads' = reads \cup
                        {[file |-> BlackbodyFile, origin |-> "download", cell |-> pc.cell]}
    /\ pc' = At("done", "", 0, 0)
    /\ UNCHANGED <<nb, inp, writes, fin, fout>>

NextMrs ==
    \/ MrsDownload \/ MrsReadList \/ MrsLoadCube \/ MrsUserDraw \/ SpecAgbCell
    \/ OrigSpecCell \/ BlackbodyCell

(***************************************************************************)
(* The MIRI PSF photometry notebook: the cells that touch files.           *)
(***************************************************************************)
\* level2[0] of ./mast/01028/, the level-3 image and level2[0] of ./mast/01171/
Cal1028 == <<"mast/01028", "cal.fits">>
Level3 == <<"mast/01171", "f560w_i2d.fits">>
Cal1171 == <<"mast/01171", "cal.fits">>
\* 'miri_mirim_f770w_fovp101_samp4_npsf4.fits', '..._f560w_...'
PsfGrid(filter) == <<"psfgrid", filter>>

MaxMiriRuns == 2    \* top-to-bottom runs of the MIRI notebook in one directory

MiriFiles == {Cal1028, Level3, Cal1171, PsfGrid("F770W"), PsfGrid("F560W")}

\* What Observations.download_products copies into mast/{proposal}/.
MastFiles(proposal) == IF proposal = "01028" THEN {Cal1028} ELSE {Level3, Cal1171}

\* The cells in the order of the notebook.
MiriCells ==
    <<"download01028", "download01171", "display", "dq", "redisplay", "psfgridF770W",
      "photometry", "level3", "psfgridF560W", "cal1171", "done">>

\* The file a loading cell opens.
MiriOpens(cell) ==
    IF cell = "level3" THEN Level3 ELSE IF cell = "cal1171" THEN Cal1171 ELSE Cal1028

InitMiri ==
    /\ nb = "miri"
    /\ pc = At(MiriCells[1], "", 0, 1)
    /\ inp \in [had_mast : BOOLEAN, had_grid : BOOLEAN]
    /\ fs = [name \in MiriFiles |->
               IF name[1] = "psfgrid"
               THEN IF inp.had_grid THEN Found("other") ELSE NoFile
               ELSE IF inp.had_mast THEN Found("other") ELSE NoFile]
    /\ k = [filename |-> <<>>, psf_model |-> "unbound"]
    /\ reads = {}
    /\ writes = {}
    /\ fin = Idle
    /\ fout = Idle

\* pc.ff counts the top-to-bottom runs before this one.
MiriNext == At(MiriCells[pc.n + 1], "", pc.ff, pc.n + 1)

\* Download Proposal ID 1028 / 1171 data, unless mast/{proposal}/ is there.
MiriDownload ==
    /\ nb = "miri" /\ pc.cell \in {"download01028", "download01171"}
    /\ LET proposal == IF pc.cell = "download01028" THEN "01028" ELSE "01171"
       IN  fs' = IF \E name \in MastFiles(proposal) : fs[name].exists THEN fs
                 ELSE [name \in MiriFiles |->
                         IF name \in MastFiles(proposal) THEN Found("download") ELSE fs[name]]
    /\ pc' = MiriNext
    /\ UNCHANGED <<nb, inp, k, reads, writes, fin, fout>>

\* fits.getdata(level2[0]), ImageModel(filename), ImageModel(level3)
MiriLoad ==
    /\ nb = "miri" /\ pc.cell \in {"display", "redisplay", "photometry", "level3", "cal1171"}
    /\ reads' = Read(MiriOpens(pc.cell))
    /\ k' = [k EXCEPT !.filename = IF pc.cell = "cal1171" THEN Cal1171 ELSE k.filename]
    /\ pc' = MiriNext
    /\ UNCHANGED <<nb, inp, fs, writes, fin, fout>>

\* Change all DQ flagged pixels to NaN: "we'll overwrite the original CAL file".
MiriDq ==
    /\ nb = "miri" /\ pc.cell = "dq"
    /\ reads' = Read(Cal1028)
    /\ fs' = [fs EXCEPT ![Cal1028] = Found("written")]
    /\ writes' = writes \cup {[file |-> Cal1028, id |-> "", filt |-> "", cell |-> pc.cell]}
    /\ k' = [k EXCEPT !.filename = Cal1028]
    /\ pc' = MiriNext
    /\ UNCHANGED <<nb, inp, fin, fout>>

\* A file that is never found.
NeverExists(dir, name) == FALSE

\* os.path.exists(psfgrid_filename)
PathExists(dir, name) == dir[name].exists

\* The file miri.psf_grid(..., save=True) saves: the grid stpsf computed.
SavedGrid == [Found("written") EXCEPT !.flux = <<"psf_grid">>]

\* The PSF grid: psf_grid(..., save=True) if the file is missing, else read.
MiriPsfGrid ==
    /\ nb = "miri" /\ pc.cell \in {"psfgridF770W", "psfgridF560W"}
    /\ LET psfgrid_filename == PsfGrid(IF pc.cell = "psfgridF770W" THEN "F770W" ELSE "F560W")
       IN  IF ~PathExists(fs, psfgrid_filename)
           THEN /\ fs' = [fs EXCEPT ![psfgrid_filename] = SavedGrid]
                /\ writes' = writes \cup
                      {[file |-> psfgrid_filename, id |-> "", filt |-> "", cell |-> pc.cell]}
                /\ k' = [k EXCEPT !.psf_model = <<"generated", psfgrid_filename>>]
                /\ reads' = reads
           ELSE /\ reads' = Read(psfgrid_filename)
                /\ k' = [k EXCEPT !.psf_model = <<"read", psfgrid_filename>>]
                /\ UNCHANGED <<fs, writes>>
    /\ pc' = MiriNext
    /\ UNCHANGED <<nb, inp, fin, fout>>

\* The notebook is run again from the top in the directory the last run left:
\* a new kernel, and every file there is one the new run finds.
MiriRunAgain ==
    /\ nb = "miri" /\ pc.cell = "done" /\ pc.ff + 1 < MaxMiriRuns
    /\ pc' = At(MiriCells[1], "", pc.ff + 1, 1)
    /\ fs' = [name \in MiriFiles |->
                IF fs[name].exists THEN [fs[name] EXCEPT !.origin = "other"] ELSE NoFile]
    /\ inp' = [had_mast |-> \E name \in MiriFiles : name[1] # "psfgrid" /\ fs[name].exists,
               had_grid |-> \E name \in MiriFiles : name[1] = "psfgrid" /\ fs[name].exists]
    /\ k' = [filename |-> <<>>, psf_model |-> "unbound"]
    /\ reads' = {}
    /\ writes' = {}
    /\ UNCHANGED <<nb, fin, fout>>

NextMiri == MiriDownload \/ MiriLoad \/ MiriDq \/ MiriPsfGrid \/ MiriRunAgain

(***************************************************************************)
(* The Imviz demo notebook (Carina): download, load, export, display.      *)
(***************************************************************************)
ImvizImages ==
    {<<"imviz", f>> : f \in {"f090w", "f187n", "f200w", "f335m", "f444w", "f470n"}}
\* 'carina_preset.png' and './carina.png'
PresetPng == <<"png", "carina_preset.png">>
CarinaPng == <<"png", "carina.png">>

ImvizFiles == ImvizImages \cup {PresetPng, CarinaPng}

InitImviz ==
    /\ nb = "imviz"
    /\ pc = At("download", "", 0, 0)
    /\ inp \in [had_png : BOOLEAN, had_preset : BOOLEAN]
    /\ fs = [name \in ImvizFiles |->
               IF (name = CarinaPng /\ inp.had_png) \/ (name = PresetPng /\ inp.had_preset)
               THEN Found("other") ELSE NoFile]
    /\ k = [loaded |-> {}]
    /\ reads = {}
    /\ writes = {}
    /\ fin = Idle
    /\ fout = Idle

\* for fn in files: Observations.download_file(uri, local_path=...)
ImvizDownload ==
    /\ nb = "imviz" /\ pc.cell = "download"
    /\ fs' = [name \in ImvizFiles |-> IF name \in ImvizImages THEN Found("download") ELSE fs[name]]
    /\ pc' = At("load", "", 0, 0)
    /\ UNCHANGED <<nb, inp, k, reads, writes, fin, fout>>

\* for fn in files: imviz.load_data(f'{data_dir}/{fn}', data_label=fn[31:36])
ImvizLoad ==
    /\ nb = "imviz" /\ pc.cell = "load"
    /\ reads' = reads \cup
                {[file |-> name, origin |-> fs[name].origin, cell |-> pc.cell] : name \in ImvizImages}
    /\ k' = [k EXCEPT !.loaded = ImvizImages]
    /\ pc' = At("export", "", 0, 0)
    /\ UNCHANGED <<nb, inp, fs, writes, fin, fout>>

\* exporting.filename = 'carina_preset.png'; exporting.export()
ImvizExport ==
    /\ nb = "imviz" /\ pc.cell = "export"
    /\ fs' = [fs EXCEPT ![PresetPng] = Found("written")]
    /\ writes' = writes \cup {[file |-> PresetPng, id |-> "", filt |-> "", cell |-> pc.cell]}
    /\ pc' = At("image", "", 0, 0)
    /\ UNCHANGED <<nb, inp, k, reads, fin, fout>>

\* Image('./carina.png'): raises FileNotFoundError if there is no such file.
ImvizImage ==
    /\ nb = "imviz" /\ pc.cell = "image"
    /\ IF fs[CarinaPng].exists
       THEN /\ reads' = Read(CarinaPng)
            /\ pc' = At("done", "", 0, 0)
       ELSE /\ reads' = reads
            /\ pc' = At("FileNotFoundError", "", 0, 0)
    /\ UNCHANGED <<nb, inp, fs, k, writes, fin, fout>>

NextImviz == ImvizDownload \/ ImvizLoad \/ ImvizExport \/ ImvizImage

(***************************************************************************)
(* The Imviz demo on NGC 346: the viewer and the cell that loads the data. *)
(* A file name is the tuple of its parts around the filter.                *)
(***************************************************************************)
\* The first two file names only.
TwoFilenames ==
    <<<<"jw01227-c1002_t005_nircam_clear", "f335m", "i2d.fits">>,
      <<"jw01227-c1002_t005_nircam_clear", "f277w", "i2d.fits">>>>

\* filenames = [...]
filenames ==
    <<<<"jw01227-c1002_t005_nircam_clear", "f335m", "i2d.fits">>,
      <<"jw01227-c1002_t005_nircam_clear", "f277w", "i2d.fits">>,
      <<"jw01227-c1002_t005_nircam_clear", "f444w", "i2d.fits">>>>

\* The files the cell loads.
DemoFiles == {filenames[i] : i \in 1..Len(filenames)}

\* The viewer an Imviz application opens with.
DefaultViewer == "imviz-0"

InitDemo ==
    /\ nb = "demo"
    /\ pc = At("show", "", 0, 0)
    /\ inp \in [cached : SUBSET DemoFiles]
    /\ fs = [name \in DemoFiles |-> IF name \in inp.cached THEN Found("other") ELSE NoFile]
    /\ k = [viewers |-> {}, layers |-> <<>>]
    /\ reads = {}
    /\ writes = {}
    /\ fin = Idle
    /\ fout = Idle

\* imviz = Imviz(); imviz.show()
DemoShow ==
    /\ nb = "demo" /\ pc.cell = "show"
    /\ k' = [k EXCEPT !.viewers = {DefaultViewer}]
    /\ pc' = At("load", "", 0, 1)
    /\ UNCHANGED <<nb, inp, fs, reads, writes, fin, fout>>

\* imviz.load_data(f'mast:JWST/product/{filename}', cache=True): the product
\* is downloaded unless a local copy is there, and becomes one more layer of
\* the default viewer.
LoadData(gui, filename) ==
    [gui EXCEPT !.layers = Append(@, [data |-> filename, filter |-> filename[2],
                                      viewer |-> DefaultViewer])]

\* One pass of `for filename in filenames` inside imviz.batch_load().
DemoLoad ==
    /\ nb = "demo" /\ pc.cell = "load"
    /\ fs' = IF fs[filenames[pc.n]].exists THEN fs
             ELSE [fs EXCEPT ![filenames[pc.n]] = Found("download")]
    /\ reads' = reads \cup {[file |-> filenames[pc.n],
                             origin |-> fs'[filenames[pc.n]].origin, cell |-> pc.cell]}
    /\ k' = LoadData(k, filenames[pc.n])
    /\ pc' = IF pc.n < Len(filenames) THEN [pc EXCEPT !.n = pc.n + 1]
             ELSE At("done", "", 0, 0)
    /\ UNCHANGED <<nb, inp, writes, fin, fout>>

NextDemo == DemoShow \/ DemoLoad

(***************************************************************************)
(* The two table-of-contents files, line by line.  A line is the key it    *)
(* sets, with its dash when it opens a list item; "#" is a comment line,   *)
(* "" a blank one, "key" a top-level key other than parts, "subkey" a key  *)
(* nested under one.                                                       *)
(***************************************************************************)
PartHead == <<"- caption", "chapters">>

Chapter == <<"- file", "title">>

RECURSIVE Chapters(_)
Chapters(n) == IF n = 0 THEN <<>> ELSE Chapter \o Chapters(n - 1)

Commented(n) == [i \in 1..n |-> "#"]

\* _toc.yml with line 79 a comment like the two lines before it.
TocYmlUntitled ==
    <<"#", "#", "key", "key", "parts">>
    \o PartHead \o Chapters(5)
    \o PartHead \o Chapter \o Commented(3) \o Chapters(3)
    \o PartHead \o Chapters(4) \o Chapter \o Commented(3) \o Chapters(2)
    \o PartHead \o Chapter \o Commented(3) \o Chapters(3) \o Chapter \o Commented(3)
       \o Chapters(2)
    \o PartHead \o Chapter \o <<"- file", "#", "#", "#">> \o Chapters(2)

\* src/_toc.yml
TocYml ==
    <<"#", "#", "key", "key", "parts">>
    \o PartHead \o Chapters(5)
    \o PartHead \o Chapter \o Commented(3) \o Chapters(3)
    \o PartHead \o Chapters(4) \o Chapter \o Commented(3) \o Chapters(2)
    \o PartHead \o Chapter \o Commented(3) \o Chapters(3) \o Chapter \o Commented(3)
       \o Chapters(2)
    \o PartHead \o Chapter \o <<"- file", "#", "#", "title">> \o Chapters(2)

\* The other table of contents of the repository.
TocPart000 ==
    <<"#", "#", "key", "key", "key", "subkey", "parts">>
    \o PartHead \o Chapters(3)
    \o PartHead \o Chapters(4)
    \o PartHead \o Chapters(3)
    \o Commented(4)
    \o PartHead \o Chapters(7)
    \o PartHead \o Chapters(3)
    \o PartHead \o Chapters(6)
    \o PartHead \o Chapters(7)
    \o <<"">>
    \o PartHead \o Chapters(11)
    \o <<"">>

TocFiles == <<TocYml, TocPart000>>

NoToc == [parts_keys |-> 0, parts |-> <<>>]

NewPart == [caption |-> 1, chapters_key |-> 0, chapters |-> <<>>]

NewChapter == [file |-> 1, title |-> 0]

\* The table of contents after one more line: a dashed key opens an item of
\* the innermost list it belongs to, another key is set in the last item.
ParseLine(toc, line) ==
    LET np == Len(toc.parts)
        nc == IF np = 0 THEN 0 ELSE Len(toc.parts[np].chapters)
    IN  IF line = "parts" THEN [toc EXCEPT !.parts_keys = @ + 1]
        ELSE IF line = "- caption" THEN [toc EXCEPT !.parts = Append(@, NewPart)]
        ELSE IF line = "chapters" /\ np > 0
        THEN [toc EXCEPT !.parts[np].chapters_key = @ + 1]
        ELSE IF line = "- file" /\ np > 0
        THEN [toc EXCEPT !.parts[np].chapters = Append(@, NewChapter)]
        ELSE IF line = "title" /\ nc > 0
        THEN [toc EXCEPT !.parts[np].chapters[nc].title = @ + 1]
        ELSE toc

InitToc ==
    /\ nb = "toc"
    /\ pc = At("parse", "", 1, 1)
    /\ inp = [files |-> TocFiles]
    /\ fs = <<>>
    /\ k = [toc |-> <<NoToc, NoToc>>]
    /\ reads = {}
    /\ writes = {}
    /\ fin = Idle
    /\ fout = Idle

\* The build reads one more line of the file it is at.
TocLine ==
    /\ nb = "toc" /\ pc.cell = "parse"
    /\ k' = [k EXCEPT !.toc[pc.ff] = ParseLine(@, inp.files[pc.ff][pc.n])]
    /\ pc' = IF pc.n < Len(inp.files[pc.ff]) THEN [pc EXCEPT !.n = pc.n + 1]
             ELSE IF pc.ff < Len(inp.files) THEN At("parse", "", pc.ff + 1, 1)
             ELSE At("done", "", 0, 0)
    /\ UNCHANGED <<nb, inp, fs, reads, writes, fin, fout>>

NextToc == TocLine

(***************************************************************************)
(* The combine step alone, on one wavelength bin of arbitrary values.      *)
(***************************************************************************)
InitCombine ==
    /\ nb = "combine"
    /\ pc = At("", "", 0, 0)
    /\ inp = NoInput
    /\ fs = [name \in Files |-> NoFile]
    /\ k = NoKernel
    /\ reads = {}
    /\ writes = {}
    /\ fin \in [flux : [1..ndither -> -MaxFlux..MaxFlux],
                err : [1..ndither -> 0..MaxErr]]
    /\ fout = Idle

\* One pass of the body of `for ii in range(len(wave))` on a one-bin spectrum.
CombineBin ==
    /\ nb = "combine"
    /\ ~fout.set
    /\ LET kk == [NoKernel EXCEPT
                    !.wave = <<FInt(0)>>,
                    !.flux = [d \in 1..ndither |-> <<FInt(fin.flux[d])>>],
                    !.flux_err2 = [d \in 1..ndither |-> <<FInt(fin.err[d] * fin.err[d])>>]]
           r == CombineStep(kk, 1)
       IN  fout' = [set |-> TRUE,
                    flux_combine |-> r.flux_combine[1],
                    flux_err_combine2 |-> r.flux_err_combine2[1]]
    /\ UNCHANGED <<nb, pc, inp, fs, k, reads, writes, fin>>

NextCombine == CombineBin

SpecCombine == InitCombine /\ [][NextCombine]_vars

Init ==
    InitNiriss \/ InitRedshift \/ InitMrs \/ InitMiri \/ InitImviz \/ InitDemo \/ InitToc

Next ==
    NextNiriss \/ NextRedshift \/ NextMrs \/ NextMiri \/ NextImviz \/ NextDemo \/ NextToc

Spec == Init /\ [][Next]_vars

(***************************************************************************)
(* Properties of the combine step.                                         *)
(***************************************************************************)
RECURSIVE WeightTo(_, _, _)
\* prod over e # d, e <= n, of err[e]^2: the weight of dither d once the
\* denominators of the weighted average are cleared.
WeightTo(err, d, n) ==
    IF n = 0 THEN 1
    ELSE (IF n = d THEN 1 ELSE err[n] * err[n]) * WeightTo(err, d, n - 1)

RECURSIVE IntSumTo(_, _)
IntSumTo(f, n) == IF n = 0 THEN 0 ELSE f[n] + IntSumTo(f, n - 1)

\* C3: at a wavelength bin, flux_combine is sum_d(flux/flux_err^2) /
\* sum_d(1/flux_err^2) over all ndither dithers (a division by a zero
\* uncertainty makes it nan); when every uncertainty is positive it lies
\* between the smallest and the largest dither flux.
C3_WeightedAverage ==
    fout.set =>
        LET fc == fout.flux_combine
            W == [d \in 1..ndither |-> WeightTo(fin.err, d, ndither)]
            FW == [d \in 1..ndither |-> fin.flux[d] * W[d]]
        IN  IF \A d \in 1..ndither : fin.err[d] > 0
            THEN /\ IsFinite(fc)
                 /\ fc[1] * IntSumTo(W, ndither) = fc[2] * IntSumTo(FW, ndither)
                 /\ \E d \in 1..ndither : fin.flux[d] * fc[2] <= fc[1]
                 /\ \E d \in 1..ndither : fc[1] <= fin.flux[d] * fc[2]
            ELSE IsNaN(fc)

\* Two dithers of different flux and different positive uncertainty have been
\* combined, and the result is strictly between them.
C3_Witness ==
    /\ nb = "combine" /\ fout.set
    /\ fin.err[1] > 0 /\ fin.err[2] > fin.err[1]
    /\ fin.flux[1] < fin.flux[2]
    /\ FLt(FInt(fin.flux[1]), fout.flux_combine)
    /\ FLt(fout.flux_combine, FInt(fin.flux[2]))

(***************************************************************************)
(* Properties of the combine-and-normalize run.                            *)
(***************************************************************************)
\* C1: the combined spectrum of every (target, filter) is written to
\* l3_nis_{filt}_{grism}_s{id}_combine_1d_opt.fits and to no other file.
C1_SavedInCombineFile ==
    nb = "niriss" => \A w \in writes : w.file = CombineFile(w.filt, w.id)

\* Every bin of flux_combine and flux_err_combine holds the combination of the
\* dithers that are loaded.
Combined(kk) ==
    /\ Len(kk.flux_combine) = Len(kk.wave)
    /\ Len(kk.flux_err_combine2) = Len(kk.wave)
    /\ \A ii \in 1..Len(kk.wave) :
          /\ kk.flux_combine[ii] = CombineFlux(kk.flux, kk.flux_err2, ii)
          /\ kk.flux_err_combine2[ii] = CombineErr2(kk.flux_err2, ii)

\* A step that computes Cnorm finds every bin combined, and divides the
\* catalog flux by the filter convolution of the combined flux.
NormalizesCombined ==
    (nb = "niriss" /\ (pc.cell = "cnorm" \/ (pc.cell \in LoopCells /\ pc.step = "normalize"))) =>
        /\ Combined(k)
        /\ LET cur == FilterCurve(k.filt)
               col == IF pc.cell = "cnorm" THEN eazy_filt ELSE eazy_filts[pc.ff]
               r == filconv(cur.Wavelength, cur.FilterTrans,
                            Mask(k.wave, k'.con), Mask(k.flux_combine, k'.con))
           IN  k'.Cnorm = FDiv(Catalog(inp, k.id, col), r.fnu)

\* A step that writes a spectrum writes the combined flux and the combined
\* uncertainty, both times the Cnorm computed last.
WritesNormalized ==
    (nb = "niriss" /\ writes' # writes) =>
        /\ Combined(k)
        /\ k'.Cnorm = k.Cnorm
        /\ fs'[k'.file_1d].wave = k.wave
        /\ fs'[k'.file_1d].flux = [ii \in 1..Len(k.wave) |-> FMul(k.flux_combine[ii], k.Cnorm)]
        /\ fs'[k'.file_1d].unc2 = k.flux_err_combine2
        /\ fs'[k'.file_1d].gain = k.Cnorm

\* C2: for every (target, filter), Cnorm is computed only after the weighted
\* combination over all wavelength bins has finished, from the combined flux
\* and never from a single dither, and the flux and the uncertainty written to
\* file are the combined values multiplied by that same Cnorm.
C2_CombineThenNormalize == [][NormalizesCombined /\ WritesNormalized]_vars

\* The loop has just written f115w of target 00003, whose dithers differ in
\* flux, with a finite normalization other than 1.
C2_Witness ==
    /\ nb = "niriss" /\ pc = At("loopB", "load", 2, 0)
    /\ inp.dflux = 1
    /\ IsFinite(k.Cnorm) /\ k.Cnorm # FInt(1) /\ k.Cnorm # FInt(0)
    /\ fs[CombineFile("f115w", "00003")].flux = Scale(k.flux_combine, k.Cnorm)
    /\ k.flux[1] # k.flux_combine

\* The spectra the loop cells have written.
LoopWritten == {w \in writes : w.cell \in LoopCells}

\* filconv of a written spectrum with its filter's curve over the window
\* (mask_lw[ff], mask_uw[ff]).
Convolved(w) ==
    LET ff == FilterIndex(w.filt)
        fd == fs[w.file]
        cur == FilterCurve(w.filt)
        con == Window(fd.wave, mask_lw[ff], mask_uw[ff])
    IN  filconv(cur.Wavelength, cur.FilterTrans, Mask(fd.wave, con), Mask(fd.flux, con)).fnu

\* The catalog's broadband flux of a written spectrum's target and filter.
Broadband(w) == Catalog(inp, w.id, eazy_filts[FilterIndex(w.filt)])

\* C4 as stated: for every (target, filter) written by the loop cells, filconv
\* of the written normalized flux, with the same filter curve and window,
\* returns the catalog flux F{eazy_filts[ff]} of the target.
C4_MatchesBroadband ==
    \A w \in LoopWritten : Convolved(w) = Broadband(w)

\* C4, amended: the same, for every written (target, filter) whose Cnorm is
\* finite, that is whose combined flux has a finite, non-zero filter
\* convolution over the window.
C4_MatchesBroadbandIfFinite ==
    \A w \in LoopWritten : IsFinite(fs[w.file].gain) => Convolved(w) = Broadband(w)

\* The loop has written a spectrum that rises with wavelength, normalized by
\* a finite factor other than 1, and its filter convolution is the catalog flux.
C4_Witness ==
    \E w \in LoopWritten :
        /\ IsFinite(fs[w.file].gain) /\ fs[w.file].gain # FInt(1)
        /\ fs[w.file].flux[1] # fs[w.file].flux[NBins]
        /\ Convolved(w) = Broadband(w)

\* What the single-filter cells of step 2 compute from the dithers that the
\* loop iteration has loaded and combined.
SingleFilter(kk, in) == GetCnorm(Convolve(kk), in)

\* C5: a loop iteration for f200w computes, from the same dither spectra, the
\* same combined flux and uncertainty, the same window, the same catalog
\* column, the same Cnorm and the same normalized spectrum as the
\* single-filter cells.
C5_LoopRepeatsSingleFilter ==
    (nb = "niriss" /\ pc.cell \in LoopCells /\ pc.step = "write" /\ k.filt = "f200w") =>
        LET s == SingleFilter(k, inp)
        IN  /\ Combined(k)
            /\ eazy_filts[k.ff] = eazy_filt
            /\ s.con = k.con
            /\ s.Cnorm = k.Cnorm
            /\ Obs(s) = Obs(k)

(***************************************************************************)
(* Properties of the redshift notebook's clean-up cell.                    *)
(***************************************************************************)
\* C8: after the clean-up cell has finished, whether or not the user drew a
\* subset, viz2 has a subset named 'Subset 1' (created with the range
\* 2.24-3.13 if the retrieval raised, and no second subset if it existed), so
\* that the lookup spec1d_region['Subset 1'] succeeds, also when the cell has
\* been executed more than once.
C8_Subset1AfterCleanup ==
    (nb = "redshift" /\ pc.cell \in {"cleanup", "done", "KeyError"}) =>
        /\ HasSubset(k, SubsetLabel(1))
        /\ pc.cell # "KeyError"
        /\ k.created <= 1
        /\ k.created = 1 =>
              [label |-> SubsetLabel(1), lo |-> roi_lo, hi |-> roi_hi] \in k.subsets

(***************************************************************************)
(* Properties of the try/except blocks.                                    *)
(***************************************************************************)
\* The clean-up cell of the redshift notebook has just run.
CleanupRan == nb = "redshift" /\ pc.cell \in {"gui", "cleanup"} /\ pc'.n = pc.n + 1

\* The spec_agb cell of the MRS notebook has just run.
SpecAgbRan == nb = "mrs" /\ pc.cell = "gui" /\ pc'.cell # "gui"

Count(seq, x) == Cardinality({i \in 1..Len(seq) : seq[i] = x})

\* C9: each try/except block wraps one GUI retrieval; when it raises, the
\* exception is caught and the cell goes on, the flag (region1_exists,
\* spec_agb_exists) is False, and it is True only when the retrieval
\* succeeded; the failed call is made once; spec_agb is bound in both branches.
C9_TryExceptBranches ==
    [][/\ CleanupRan =>
            /\ pc'.cell = "cleanup"
            /\ k'.region1_exists = HasSubset(k, SubsetLabel(1))
            /\ k'.raised = ~HasSubset(k, SubsetLabel(1))
            /\ Count(k'.calls, SubsetLabel(1)) = 1
            /\ k'.region1_exists => k'.region1 = SubsetLabel(1)
       /\ SpecAgbRan =>
            /\ pc'.cell = "origspec"
            /\ k'.spec_agb_exists = (SubsetSum \in k.labels)
            /\ k'.raised = (SubsetSum \notin k.labels)
            /\ Count(k'.calls, SubsetSum) = 1
            /\ k'.spec_agb = IF k'.spec_agb_exists THEN SubsetSum ELSE FieldSum]_vars

\* Both retrievals have raised and both have succeeded: the MRS cell has bound
\* spec_agb to the whole field of view after a raise, and the redshift cell has
\* found the user's subset.
C9_Witness ==
    \/ /\ nb = "mrs" /\ pc.cell = "origspec"
       /\ k.raised /\ k.spec_agb_exists = FALSE /\ k.spec_agb = FieldSum
    \/ /\ nb = "redshift" /\ pc.cell = "cleanup"
       /\ k.raised /\ k.region1_exists = FALSE /\ k.created = 1

(***************************************************************************)
(* Files a run depends on.                                                 *)
(***************************************************************************)
\* The files a notebook uses as it finds them in the working directory: those
\* whose presence it tests before it downloads or generates them, and the
\* picture the Imviz notebook displays without producing it.
UsedAsFound ==
    IF nb = "niriss" THEN (IF inp.had_output THEN ZipMembers ELSE {})
    ELSE IF nb = "mrs" THEN (IF inp.had_cube THEN Reduced ELSE {})
    ELSE IF nb = "miri"
    THEN (IF inp.had_mast THEN {Cal1028, Level3, Cal1171} ELSE {})
         \cup (IF inp.had_grid THEN {PsfGrid("F770W"), PsfGrid("F560W")} ELSE {})
    ELSE IF nb = "imviz" THEN {CarinaPng}
    ELSE IF nb = "demo" THEN inp.cached
    ELSE {}

Reread == {r \in reads : r.origin = "written"}

\* The files the notebooks write and load again, and the cells that load them.
RereadFiles ==
    IF nb = "niriss"
    THEN [file : CombineFiles, origin : {"written"}, cell : PlotCells]
         \cup [file : {DitherFile("f200w", "00004", 1)}, origin : {"written"}, cell : {"loopA"}]
    ELSE IF nb = "miri"
    THEN [file : {Cal1028}, origin : {"written"}, cell : {"redisplay", "photometry"}]
    ELSE {}

WellFormedChapter(ch) == ch.file = 1 /\ ch.title = 1

WellFormedPart(part) ==
    /\ part.caption = 1
    /\ part.chapters_key = 1
    /\ Len(part.chapters) > 0
    /\ \A i \in 1..Len(part.chapters) : WellFormedChapter(part.chapters[i])

\* C10: both table-of-contents files are lists of captioned parts whose
\* chapters are file/title pairs: once a file is read to its end, every part
\* has exactly one caption and a non-empty chapters list, and every chapter
\* has exactly one file key and exactly one title key.
C10_CaptionedPartsOfFileTitlePairs ==
    (nb = "toc" /\ pc.cell = "done") =>
        \A f \in 1..Len(k.toc) :
            /\ k.toc[f].parts_keys = 1
            /\ Len(k.toc[f].parts) > 0
            /\ \A p \in 1..Len(k.toc[f].parts) : WellFormedPart(k.toc[f].parts[p])

\* Both files are read to their ends: 5 parts in _toc.yml, whose last part has
\* the chapter with a commented-out title before its title, and 8 parts in the
\* other file, whose commented-out part is not one.
C10_Witness ==
    /\ nb = "toc" /\ pc.cell = "done"
    /\ Len(inp.files[1]) = 83 /\ Len(inp.files[2]) = 117
    /\ Len(k.toc[1].parts) = 5 /\ Len(k.toc[2].parts) = 8
    /\ Len(k.toc[1].parts[5].chapters) = 4
    /\ Len(k.toc[2].parts[8].chapters) = 11

(***************************************************************************)
(* The PSF grids of the MIRI notebook.                                     *)
(***************************************************************************)
PsfGridFilters == {"F770W", "F560W"}

\* The step runs the PSF-grid cell of the filter.
PsfGridCellOf(filter) == nb = "miri" /\ pc.cell = "psfgrid" \o filter

\* The step generates and saves the grid of the filter.
Generates(filter) ==
    /\ PsfGridCellOf(filter)
    /\ \E w \in writes' \ writes : w.file = PsfGrid(filter)

\* C11: the PSF grid of a filter is generated at most once: the PSF-grid cell
\* generates and saves the grid only when the grid file does not exist, and
\* in every later execution it loads the saved file instead of regenerating
\* it (the file, once there, stays and keeps its content); in both branches
\* psf_model is bound afterwards.
C11_GridGeneratedAtMostOnce ==
    [][\A filter \in PsfGridFilters :
          /\ Generates(filter) =>
                /\ ~fs[PsfGrid(filter)].exists
                /\ fs'[PsfGrid(filter)] = SavedGrid
                /\ k'.psf_model = <<"generated", PsfGrid(filter)>>
          /\ (PsfGridCellOf(filter) /\ fs[PsfGrid(filter)].exists) =>
                /\ ~Generates(filter)
                /\ fs'[PsfGrid(filter)] = fs[PsfGrid(filter)]
                /\ k'.psf_model = <<"read", PsfGrid(filter)>>
                /\ \E r \in reads' : r.file = PsfGrid(filter) /\ r.cell = pc.cell
          /\ (nb = "miri" /\ fs[PsfGrid(filter)].exists) =>
                /\ fs'[PsfGrid(filter)].exists
                /\ fs'[PsfGrid(filter)].flux = fs[PsfGrid(filter)].flux]_vars

\* The second run has executed the F560W cell: both cells loaded the grids
\* that the first run, which found none, had generated and saved.
C11_Witness ==
    /\ nb = "miri" /\ pc.ff = 1 /\ pc.cell = "cal1171"
    /\ k.psf_model = <<"read", PsfGrid("F560W")>>
    /\ \A filter \in PsfGridFilters :
          /\ fs[PsfGrid(filter)].flux = SavedGrid.flux
          /\ \E r \in reads : r.file = PsfGrid(filter) /\ r.origin = "other"
    /\ writes = {[file |-> Cal1028, id |-> "", filt |-> "", cell |-> "dq"]}

(***************************************************************************)
(* The master spectrum of the MRS notebook.                                *)
(***************************************************************************)
\* The master spectrum has been built.
MasterBuilt == nb = "mrs" /\ pc.cell \notin {"download", "readlist"}

\* How many samples of the SpectrumList are the pair (w, f).
RECURSIVE SamplesIn(_, _, _, _)
SamplesIn(splist, n, w, f) ==
    IF n = 0 THEN 0
    ELSE SamplesIn(splist, n - 1, w, f) +
         Cardinality({j \in 1..Len(splist[n].spectral_axis) :
                        splist[n].spectral_axis[j] = w /\ splist[n].flux[j] = f})

RECURSIVE TotalLength(_, _)
TotalLength(splist, n) ==
    IF n = 0 THEN 0 ELSE TotalLength(splist, n - 1) + Len(splist[n].spectral_axis)

\* C12: the master spectrum contains every (wavelength, flux) sample of
\* every input spectrum exactly once (its length is the sum of the input
\* lengths, and each pair occurs as often as in the inputs), wlall is sorted
\* in non-decreasing order, and every flux stays with its wavelength.
C12_MasterSpectrumSortedPairs ==
    MasterBuilt =>
        /\ Len(k.wlall) = TotalLength(inp.splist, Len(inp.splist))
        /\ Len(k.fnuall) = Len(k.wlall)
        /\ \A i \in 1..(Len(k.wlall) - 1) : k.wlall[i] <= k.wlall[i + 1]
        /\ \A w \in 1..MaxWl, f \in 1..MaxFnu :
              Cardinality({i \in 1..Len(k.wlall) : k.wlall[i] = w /\ k.fnuall[i] = f})
                  = SamplesIn(inp.splist, Len(inp.splist), w, f)

\* The master spectrum of two spectra of two samples each, whose wavelength
\* ranges overlap with one wavelength in common and whose fluxes differ: the
\* samples of the second spectrum come first.
C12_Witness ==
    /\ MasterBuilt
    /\ inp.splist[1].spectral_axis = <<2, 3>> /\ inp.splist[1].flux = <<1, 2>>
    /\ inp.splist[2].spectral_axis = <<1, 2>> /\ inp.splist[2].flux = <<2, 2>>
    /\ ~inp.stable
    /\ k.wlall = <<1, 2, 2, 3>> /\ k.fnuall = <<2, 2, 1, 2>>

(***************************************************************************)
(* The layers of the Imviz demo.                                           *)
(***************************************************************************)
\* The data-loading cell has run to its end.
DemoLoaded == nb = "demo" /\ pc.cell = "done"

LayerFilters == {k.layers[i].filter : i \in 1..Len(k.layers)}

LayerViewers == {k.layers[i].viewer : i \in 1..Len(k.layers)}

C14_InputFilesUnmodified ==
    (nb = "niriss" /\ pc.cell # "download") =>
        /\ \A name \in DitherFiles : fs[name] = Product(inp, name)
        /\ \A w \in writes : w.file \in CombineFiles

(***************************************************************************)
(* filconv, as the combine-and-normalize notebook calls it.                *)
(***************************************************************************)
\* The kernel holds the arguments and the results of a call of filconv on the
\* combined spectrum: after the convolve cell and after the loops' normalize.
FilconvCalled ==
    /\ nb = "niriss"
    /\ \/ pc.cell = "cnorm"
       \/ pc.cell \in LoopCells /\ pc.step = "write"

\* The filter wavelengths whose transmission exceeds half of the maximum.
HalfMaxRange(lfil, ffil) ==
    {lfil[i] : i \in {j \in 1..Len(ffil) : FGt(ffil[j], FDiv(FMax(ffil), FInt(2)))}}

\* m is the midpoint between the smallest and the largest member of range.
IsMidpoint(m, range) ==
    \E lo \in range, hi \in range :
        /\ \A x \in range : FLe(lo, x) /\ FLe(x, hi)
        /\ m = FDiv(FAdd(hi, lo), FInt(2))

\* simpson(spec / lamS**2 * c * filt_int * lamS, x=lamS)
I1(lamS, spec, filt_int) ==
    Simpson([i \in 1..Len(lamS) |->
               FMul(FMul(FMul(FDiv(spec[i], FMul(lamS[i], lamS[i])), FInt(c)),
                         filt_int[i]), lamS[i])], lamS)

\* simpson(filt_int/lamS, x=lamS)
I2(lamS, filt_int) ==
    Simpson([i \in 1..Len(lamS) |-> FDiv(filt_int[i], lamS[i])], lamS)

\* fnu is what filconv returns for the spectrum (lamS, spec).
IsFilconvFlux(fnu, lamS, spec, filt_int) ==
    IF Len(lamS) = 0 THEN fnu = FInt(0)
    ELSE fnu = FDiv(FDiv(I1(lamS, spec, filt_int), I2(lamS, filt_int)), FInt(c))

\* Spectrum arguments other than the one of the call: none, the first sample
\* of the combined spectrum alone, and the window with all fluxes zero.
OtherSpectra ==
    {[l0 |-> <<>>, f0 |-> <<>>],
     [l0 |-> SubSeq(k.wave, 1, 1), f0 |-> SubSeq(k.flux_combine, 1, 1)],
     [l0 |-> Mask(k.wave, k.con), f0 |-> Zeros(Len(Mask(k.wave, k.con)))]}

=============================================================================
